---- MODULE Spec2Model ----
(***************************************************************************)
(* Model of the multi-provider failover router (ProviderRouter,            *)
(* src/src/routes/analyze.routes.ts lines 30-283) of the smart summary     *)
(* insight service.                                                        *)
(*                                                                         *)
(* Time is counted in abstract units (one unit stands for a block of       *)
(* milliseconds); the durations the router reads from the environment are  *)
(* scaled to the same unit and keep their order                            *)
(* (errorCooldownMs < rateLimitCooldownMs, paymentDisableMs <= authDisableMs).           *)
(*                                                                         *)
(* analyzeData is an async function: it runs without interruption up to    *)
(* the await of a provider call, and again from the settlement of that     *)
(* call up to the next await or its end.  Each of those runs is one action *)
(* of the model; several invocations interleave only at the await.         *)
(***************************************************************************)
EXTENDS Integers, Sequences, FiniteSets, TLC

VARIABLES
    now,          \* Date.now(), in time units
    strategy,     \* process.env.AI_PROVIDER_STRATEGY, lower-cased
    providers,    \* this.providers: the registered RoutedProvider list
    state,        \* this.state: ProviderName -> ProviderState
    localQuota,   \* this.localQuota: ProviderName -> timestamps
    inv,          \* the analyzeData invocations (locals and position)
    recentCalls,  \* history: the times of the provider calls in the trailing window
    made,         \* history: how many provider calls were issued
    faults,       \* environment: the failures the upstreams show in this run
    slots,        \* environment: the invocations the server runs at once
    ev,           \* history: what the last step did
    svc,          \* the processAnalysis call of the AnalysisService in front of the router
    est,          \* a prompt text and the token estimate taken of it
    ctl,          \* the analyze call of the AnalyzeController in front of the service
    redis         \* the RedisService: isConnected, and what the server holds

vars == <<now, strategy, providers, state, localQuota, inv, recentCalls, made, faults, slots, ev, svc, est, ctl, redis>>

----------------------------------------------------------------------------
(* Bounds of the model *)

MaxTime == 2          \* the clock stops advancing here
MaxCalls == 3         \* provider calls issued in one behaviour
MaxTextLen == 6       \* characters of a text handed to estimateTokens

(* Configuration read by the constructor (scaled time units) *)

rateLimitCooldownMs == 2
errorCooldownMs == 1
authDisableMs == 3
paymentDisableMs == 2
localQuotaMax == 2
localQuotaWindowMs == 1

Invocations == {1, 2}

Max(a, b) == IF a >= b THEN a ELSE b

----------------------------------------------------------------------------
(* Provider descriptors and the registrations the route wiring can build.   *)
(* cost_per_1k is in units of 0.00001 USD.                                  *)

ProviderName == {"claude", "openai", "deepseek"}

RoutedProvider(n, c) == [name |-> n, cost_per_1k |-> c]

Deployment(s, provs) == [strategy |-> s, providers |-> provs]

Deployments ==
    { Deployment("cost_then_failover", << RoutedProvider("claude", 25) >>),
      Deployment("cost_then_failover",
                 << RoutedProvider("openai", 10), RoutedProvider("deepseek", 10) >>),
      Deployment("cost_then_failover",
                 << RoutedProvider("openai", 20), RoutedProvider("deepseek", 10),
                    RoutedProvider("claude", 25) >>),
      Deployment("fixed_order",
                 << RoutedProvider("openai", 20), RoutedProvider("deepseek", 10),
                    RoutedProvider("claude", 25) >>),
      Deployment("fixed_order",
                 << RoutedProvider("claude", 25), RoutedProvider("openai", 20),
                    RoutedProvider("deepseek", 20) >>) }

TokenEstimates == {1, 3}

Names(provs) == {provs[k].name : k \in 1..Len(provs)}

----------------------------------------------------------------------------
(* Errors.  An optional value (status?, lastErr, last_error) is a set with  *)
(* at most one element; {} is undefined.  A message is the sequence of the  *)
(* phrases it is made of.                                                   *)

AIProviderError(p, st, rt, msg) ==
    [type |-> "AIProviderError", provider |-> p, status |-> st,
     retryable |-> rt, message |-> msg]

\* a plain Error / a thrown non-Error value: only type and message are read
PlainError(msg) ==
    [type |-> "Error", provider |-> "", status |-> {}, retryable |-> TRUE,
     message |-> msg]

NonError(msg) ==
    [type |-> "NonError", provider |-> "", status |-> {}, retryable |-> TRUE,
     message |-> msg]

\* what axios rejects with inside an adapter: the error code, the status of
\* the response when there is one, the message
AxiosError(code, st, msg) == [code |-> code, status |-> st, message |-> msg]

AxiosErrors ==
    { AxiosError("ERR_BAD_REQUEST", {401}, <<"unauthorized">>),
      AxiosError("ERR_BAD_REQUEST", {403}, <<"forbidden">>),
      AxiosError("ERR_BAD_REQUEST", {402}, <<"payment required">>),
      AxiosError("ERR_BAD_REQUEST", {429}, <<"rate limit">>),
      AxiosError("ERR_BAD_RESPONSE", {500}, <<"server error">>),
      AxiosError("ECONNABORTED", {}, <<"timeout exceeded">>),
      AxiosError("ERR_BAD_REQUEST", {400}, <<"bad request">>) }

\* mutant: a timeout is reported as final
AdapterCatch_TimeoutFinal(p, e) ==
    IF e.code = "ECONNABORTED"
    THEN AIProviderError(p, e.status, FALSE, <<"request timeout">>)
    ELSE AIProviderError(p, e.status,
                         IF e.status # {}
                         THEN \E st \in e.status : st = 429 \/ st >= 500
                         ELSE TRUE,
                         e.message)

\* the catch block of an adapter's analyzeData
AdapterCatch(p, e) ==
    IF e.code = "ECONNABORTED"
    THEN AIProviderError(p, e.status, TRUE, <<"request timeout">>)
    ELSE AIProviderError(p, e.status,
                         IF e.status # {}
                         THEN \E st \in e.status : st = 429 \/ st >= 500
                         ELSE TRUE,
                         e.message)

\* what the adapters throw (structured), for the provider p that is called
StructuredErrors(p) ==
    {AdapterCatch(p, e) : e \in AxiosErrors}
        \cup {AIProviderError(p, {}, FALSE, <<"API key is missing">>)}

PlainMessages ==
    { <<"insufficient credit">>,
      <<"Rate Limit", "insufficient credit">>,
      <<"Unauthorized", "insufficient credit">> }

\* the messages of the failures that occur together in one run
FaultProfiles ==
    { { <<"unauthorized">>, <<"payment required">>, <<"API key is missing">>,
        <<"bad request">> },
      { <<"rate limit">>, <<"server error">>, <<"request timeout">>, <<"boom">> },
      { <<"forbidden">>, <<"insufficient credit">>,
        <<"Rate Limit", "insufficient credit">>,
        <<"Unauthorized", "insufficient credit">> } }

UnstructuredErrors ==
    {PlainError(m) : m \in PlainMessages} \cup {NonError(<<"boom">>)}

RawErrors(p) == StructuredErrors(p) \cup UnstructuredErrors

\* the /i flag of the regular expressions
Lower(w) ==
    CASE w = "Rate Limit" -> "rate limit"
      [] w = "Unauthorized" -> "unauthorized"
      [] OTHER -> w

\* RegExp.test: some alternative of the pattern occurs in the message
Test(pattern, msg) == \E k \in 1..Len(msg) : Lower(msg[k]) \in pattern

RateLimitPattern == {"rate limit", "429"}
AuthPattern == {"invalid api key", "unauthorized", "forbidden", "401", "403"}
PaymentPattern == {"payment required", "402", "insufficient credit", "no credit"}

\* mutant: the payment indicators are not looked at
toProviderError_NoPayment(name, err) ==
    IF err.type = "AIProviderError" THEN err
    ELSE LET msg == err.message
             looksLikeRateLimit == Test(RateLimitPattern, msg)
             looksLikeAuth == Test(AuthPattern, msg)
         IN AIProviderError(name,
                IF looksLikeRateLimit THEN {429}
                ELSE IF looksLikeAuth THEN {401} ELSE {},
                IF looksLikeAuth THEN FALSE ELSE TRUE,
                msg)

\* mutant: a structured error is classified by its message like any other
toProviderError_AlwaysMatch(name, err) ==
    LET msg == err.message
        looksLikeRateLimit == Test(RateLimitPattern, msg)
        looksLikeAuth == Test(AuthPattern, msg)
        looksLikePayment == Test(PaymentPattern, msg)
    IN AIProviderError(name,
           IF looksLikeRateLimit THEN {429}
           ELSE IF looksLikeAuth THEN {401}
           ELSE IF looksLikePayment THEN {402} ELSE {},
           IF looksLikeAuth \/ looksLikePayment THEN FALSE ELSE TRUE,
           msg)

toProviderError(name, err) ==
    IF err.type = "AIProviderError" THEN err
    ELSE LET msg == err.message
             looksLikeRateLimit == Test(RateLimitPattern, msg)
             looksLikeAuth == Test(AuthPattern, msg)
             looksLikePayment == Test(PaymentPattern, msg)
         IN AIProviderError(name,
                IF looksLikeRateLimit THEN {429}
                ELSE IF looksLikeAuth THEN {401}
                ELSE IF looksLikePayment THEN {402} ELSE {},
                IF looksLikeAuth \/ looksLikePayment THEN FALSE ELSE TRUE,
                msg)

\* err instanceof Error (AIProviderError extends Error)
InstanceOfError(err) == err.type \in {"Error", "AIProviderError"}

AllFailedError == PlainError(<<"All AI providers failed">>)

----------------------------------------------------------------------------
(* Token estimate (utils/token-estimator.ts); a text is the sequence of its *)
(* characters                                                               *)

Chars == {"a", "b"}

\* Math.ceil(n / d) for n >= 0, d > 0
Ceil(n, d) == (n + d - 1) \div d

\* mutant: rounds down
estimateTokens_Floor(text) ==
    IF text = <<>> THEN 0
    ELSE Max(1, Len(text) \div 4)

estimateTokens(text) ==
    IF text = <<>> THEN 0
    ELSE Max(1, Ceil(Len(text), 4))

\* the estimate of a text, taken when the text is there
Estimated(text) == [text |-> text, tokens |-> estimateTokens(text)]

\* a prompt grows by one character and is estimated again
Type(ch) ==
    /\ Len(est.text) < MaxTextLen
    /\ est' = Estimated(Append(est.text, ch))

----------------------------------------------------------------------------
(* Provider ordering *)

\* (tokens / 1000) * per1k, kept in integers: the value is in 1/1000 of the
\* cost unit, which leaves every comparison as it is
estimateCostUsd(p, tokens) == tokens * p.cost_per_1k

\* mutant: the operands of the subtraction swapped (descending order)
Compare_Swapped(a, b, estTokens) == estimateCostUsd(b, estTokens) - estimateCostUsd(a, estTokens)

\* the comparator of the sort: a before b when negative
Compare(a, b, estTokens) == estimateCostUsd(a, estTokens) - estimateCostUsd(b, estTokens)

\* Array.prototype.sort is stable: x, which comes later than every element
\* of the sorted prefix s, goes behind the elements it does not precede
RECURSIVE InsertStable(_, _, _)
InsertStable(x, s, estTokens) ==
    IF s = <<>> THEN <<x>>
    ELSE IF Compare(x, s[Len(s)], estTokens) < 0
         THEN Append(InsertStable(x, SubSeq(s, 1, Len(s) - 1), estTokens), s[Len(s)])
         ELSE Append(s, x)

RECURSIVE SortByCost(_, _)
SortByCost(s, estTokens) ==
    IF s = <<>> THEN <<>>
    ELSE InsertStable(s[Len(s)], SortByCost(SubSeq(s, 1, Len(s) - 1), estTokens), estTokens)

\* mutant: the strategy is not looked at
rankProviders_AlwaysByCost(provs, estTokens, strat) == SortByCost(provs, estTokens)

rankProviders(provs, estTokens, strat) ==
    IF strat = "fixed_order" THEN provs
    ELSE SortByCost(provs, estTokens)

\* mutant: Array.prototype.sort on this.providers itself, which sorts in place
registeredAfterRanking_InPlace(provs, estTokens, strat) ==
    rankProviders(provs, estTokens, strat)

\* this.providers once rankProviders has returned: both branches spread it
\* into a new array ([...this.providers]) and only the copy is sorted
registeredAfterRanking(provs, estTokens, strat) == provs

----------------------------------------------------------------------------
(* Cooldown / disable state; st is this.state and t is Date.now() *)

\* mutant: the comparison the wrong way round
isInCooldown_Reversed(st, name, t) == t > st[name].cooldown_until_ms

\* mutant: the cooldown is not looked at
isInCooldown_Ignored(st, name, t) == FALSE

isInCooldown(st, name, t) == t < st[name].cooldown_until_ms

\* mutant: the new deadline overwrites the existing one
cooldown_Overwrite(st, name, ms, t) ==
    [st EXCEPT ![name].cooldown_until_ms = t + ms]

cooldown(st, name, ms, t) ==
    [st EXCEPT ![name].cooldown_until_ms = Max(@, t + ms)]

\* mutant: a provider once disabled stays disabled
isDisabled_Latched(st, name, t) == st[name].disabled_until_ms > 0

isDisabled(st, name, t) == t < st[name].disabled_until_ms

\* mutant: the new deadline overwrites the existing one
disable_Overwrite(st, name, ms, t) ==
    [st EXCEPT ![name].disabled_until_ms = t + ms]

disable(st, name, ms, t) ==
    [st EXCEPT ![name].disabled_until_ms = Max(@, t + ms)]

\* mutant: a success clears the cooldown of every provider
markSuccess_All(st, name) ==
    [n \in DOMAIN st |->
        [st[n] EXCEPT !.consecutive_failures = IF n = name THEN 0 ELSE @,
                      !.cooldown_until_ms = 0]]

\* mutant: a success wipes the whole record of the provider
markSuccess_Reset(st, name) ==
    [st EXCEPT ![name] = [cooldown_until_ms |-> 0, consecutive_failures |-> 0,
                          disabled_until_ms |-> 0, last_error |-> {}]]

\* mutant: a success lifts the disablement too
markSuccess_Reenable(st, name) ==
    [st EXCEPT ![name].consecutive_failures = 0,
               ![name].cooldown_until_ms = 0,
               ![name].disabled_until_ms = 0]

markSuccess(st, name) ==
    [st EXCEPT ![name].consecutive_failures = 0,
               ![name].cooldown_until_ms = 0]

\* mutant: one failure counter shared by all providers
markFailure_Shared(st, name) ==
    [n \in DOMAIN st |-> [st[n] EXCEPT !.consecutive_failures = @ + 1]]

markFailure(st, name) ==
    [st EXCEPT ![name].consecutive_failures = @ + 1]

\* mutant: recording an error counts it as well
recordError_Counts(st, name, err, t) ==
    [st EXCEPT ![name].last_error =
                   {[status |-> err.status, message |-> err.message, at |-> t]},
               ![name].consecutive_failures = @ + 1]

recordError(st, name, err, t) ==
    [st EXCEPT ![name].last_error =
        {[status |-> err.status, message |-> err.message, at |-> t]}]

----------------------------------------------------------------------------
(* Local quota; lq is this.localQuota *)

Fresh(arr, t) == SelectSeq(arr, LAMBDA x : x >= t - localQuotaWindowMs)

\* mutant: the admission is not written back (an append lost to an
\* interleaved check)
checkAndConsumeLocalQuota_LostAppend(lq, name, t) ==
    LET fresh == Fresh(lq[name], t)
    IN IF Len(fresh) >= localQuotaMax
       THEN [ok |-> FALSE, lq |-> [lq EXCEPT ![name] = fresh]]
       ELSE [ok |-> TRUE, lq |-> [lq EXCEPT ![name] = fresh]]

\* mutant: a refused attempt is written into the window too
checkAndConsumeLocalQuota_CountsRefused(lq, name, t) ==
    LET fresh == Fresh(lq[name], t)
    IN IF Len(fresh) >= localQuotaMax
       THEN [ok |-> FALSE, lq |-> [lq EXCEPT ![name] = Append(fresh, t)]]
       ELSE [ok |-> TRUE, lq |-> [lq EXCEPT ![name] = Append(fresh, t)]]

\* mutant: an admission takes two slots
checkAndConsumeLocalQuota_DoubleCharge(lq, name, t) ==
    LET fresh == Fresh(lq[name], t)
    IN IF Len(fresh) >= localQuotaMax
       THEN [ok |-> FALSE, lq |-> [lq EXCEPT ![name] = fresh]]
       ELSE [ok |-> TRUE, lq |-> [lq EXCEPT ![name] = Append(Append(fresh, t), t)]]

\* mutant: one admission too many (> for >=)
checkAndConsumeLocalQuota_OffByOne(lq, name, t) ==
    LET fresh == Fresh(lq[name], t)
    IN IF Len(fresh) > localQuotaMax
       THEN [ok |-> FALSE, lq |-> [lq EXCEPT ![name] = fresh]]
       ELSE [ok |-> TRUE, lq |-> [lq EXCEPT ![name] = Append(fresh, t)]]

checkAndConsumeLocalQuota(lq, name, t) ==
    LET fresh == Fresh(lq[name], t)
    IN IF Len(fresh) >= localQuotaMax
       THEN [ok |-> FALSE, lq |-> [lq EXCEPT ![name] = fresh]]
       ELSE [ok |-> TRUE, lq |-> [lq EXCEPT ![name] = Append(fresh, t)]]

----------------------------------------------------------------------------
(* The failover loop of analyzeData *)

\* what a provider call resolves to
\* (what parseJsonAnalysisResponse builds from the model's answer, and the
\* two fields the adapter adds; confidence_score in hundredths)
Summaries == {"s1", "s2"}
Results(p) ==
    {[summary |-> sm,
      key_insights |-> <<"insight", sm>>,
      next_actions |-> <<"action", sm>>,
      metadata |-> [confidence_score |-> 80, model_version |-> p,
                    processing_time_ms |-> 0],
      model_version |-> p,
      raw_response |-> sm] : sm \in Summaries}

\* mutant: a candidate over quota is counted as a failed call
RECURSIVE Scan_CountsRejection(_, _, _, _, _)
Scan_CountsRejection(cands, k, st, lq, t) ==
    IF k > Len(cands)
    THEN [k |-> k, st |-> st, lq |-> lq, skipped |-> {}, rejected |-> {}]
    ELSE LET c == cands[k]
         IN IF isDisabled(st, c.name, t) \/ isInCooldown(st, c.name, t)
            THEN LET rest == Scan_CountsRejection(cands, k + 1, st, lq, t)
                 IN [rest EXCEPT !.skipped = @ \cup {c.name}]
            ELSE LET q == checkAndConsumeLocalQuota(lq, c.name, t)
                 IN IF ~q.ok
                    THEN LET rest == Scan_CountsRejection(cands, k + 1,
                                          markFailure(
                                            cooldown(st, c.name, rateLimitCooldownMs, t),
                                            c.name),
                                          q.lq, t)
                         IN [rest EXCEPT !.rejected = @ \cup {c.name}]
                    ELSE [k |-> k, st |-> st, lq |-> q.lq,
                          skipped |-> {}, rejected |-> {}]

\* The for loop from candidate k up to the candidate it invokes (k <= Len)
\* or the end of the list (k = Len + 1): health check, quota, cooldown of a
\* candidate over quota.  skipped and rejected say what happened on the way.
RECURSIVE Scan(_, _, _, _, _)
Scan(cands, k, st, lq, t) ==
    IF k > Len(cands)
    THEN [k |-> k, st |-> st, lq |-> lq, skipped |-> {}, rejected |-> {}]
    ELSE LET c == cands[k]
         IN IF isDisabled(st, c.name, t) \/ isInCooldown(st, c.name, t)
            THEN LET rest == Scan(cands, k + 1, st, lq, t)
                 IN [rest EXCEPT !.skipped = @ \cup {c.name}]
            ELSE LET q == checkAndConsumeLocalQuota(lq, c.name, t)
                 IN IF ~q.ok
                    THEN LET rest == Scan(cands, k + 1,
                                          cooldown(st, c.name, rateLimitCooldownMs, t),
                                          q.lq, t)
                         IN [rest EXCEPT !.rejected = @ \cup {c.name}]
                    ELSE [k |-> k, st |-> st, lq |-> q.lq,
                          skipped |-> {}, rejected |-> {}]

\* the two throw statements after the loop
TerminalError(lastErr) ==
    IF lastErr # {} /\ (\A e \in lastErr : InstanceOfError(e))
    THEN CHOOSE e \in lastErr : TRUE
    ELSE AllFailedError

\* the locals of an invocation that are live across an await; calls is
\* history: the providers this invocation has called, in order
IdleInvocation ==
    [pc |-> "idle", candidates |-> <<>>, i |-> 0, lastErr |-> {}, calls |-> <<>>]

\* What the last step did: the invocation r that ran, the provider whose
\* call settled (name) with the raw and the classified error, the
\* candidates passed over and the one invoked, when the invocation ended in
\* this step what its caller received (result or thrown) and the
\* invocation's final locals (fin), and this.state and this.localQuota as
\* they were before the step (pre, preQuota).
NoEvent ==
    [op |-> "init", r |-> 0, estTokens |-> 0, name |-> "", raw |-> {},
     mapped |-> {}, skipped |-> {}, rejected |-> {}, invoked |-> {},
     result |-> {}, thrown |-> {}, fin |-> {}, pre |-> <<>>, preQuota |-> <<>>]

\* Runs the loop of invocation r from candidate k with health state st, and
\* stops at the await of the next provider call or at the terminal throw.
Proceed(r, cur, k, st, e) ==
    LET s == Scan(cur.candidates, k, st, localQuota, now)
        exhausted == s.k > Len(cur.candidates)
        callee == cur.candidates[s.k].name
    IN /\ exhausted \/ made < MaxCalls
       /\ made' = IF exhausted THEN made ELSE made + 1
       /\ state' = s.st
       /\ localQuota' = s.lq
       /\ inv' = [inv EXCEPT ![r] =
                    IF exhausted THEN IdleInvocation
                    ELSE [cur EXCEPT !.pc = "await", !.i = s.k,
                                     !.calls = Append(@, callee)]]
       /\ recentCalls' = IF exhausted THEN recentCalls
                         ELSE [recentCalls EXCEPT ![callee] = Append(@, now)]
       /\ ev' = IF exhausted
                THEN [e EXCEPT !.skipped = s.skipped, !.rejected = s.rejected,
                               !.thrown = {TerminalError(cur.lastErr)},
                               !.fin = {[cur EXCEPT !.i = s.k]}]
                ELSE [e EXCEPT !.skipped = s.skipped, !.rejected = s.rejected,
                               !.invoked = {callee}]

\* analyzeData is called: rank, then the loop up to the first await
Begin(r, estTokens) ==
    /\ r \in slots
    /\ inv[r].pc = "idle"
    /\ \A q \in Invocations : q < r => inv[q].pc # "idle"   \* lowest free slot
    /\ Proceed(r,
               [IdleInvocation EXCEPT
                    !.candidates = rankProviders(providers, estTokens, strategy)],
               1, state,
               [NoEvent EXCEPT !.op = "begin", !.r = r, !.estTokens = estTokens,
                               !.pre = state, !.preQuota = localQuota])
    /\ providers' = registeredAfterRanking(providers, estTokens, strategy)
    /\ UNCHANGED <<now, strategy, faults, slots>>

\* mutant: a fan-out, the loop goes on after a success
Returns_FanOut(r, res) ==
    /\ inv[r].pc = "await"
    /\ LET c == inv[r].candidates[inv[r].i]
       IN /\ res \in Results(c.name)
          /\ Proceed(r, inv[r], inv[r].i + 1, markSuccess(state, c.name),
                     [NoEvent EXCEPT !.op = "return", !.r = r, !.name = c.name,
                                     !.result = {res}, !.pre = state,
                                     !.preQuota = localQuota])
    /\ UNCHANGED <<now, strategy, providers, faults, slots>>

\* the awaited provider call resolves: markSuccess and return
Returns(r, res) ==
    /\ inv[r].pc = "await"
    /\ LET c == inv[r].candidates[inv[r].i]
       IN /\ res \in Results(c.name)
          /\ state' = markSuccess(state, c.name)
          /\ inv' = [inv EXCEPT ![r] = IdleInvocation]
          /\ ev' = [NoEvent EXCEPT !.op = "return", !.r = r, !.name = c.name,
                                   !.result = {res}, !.fin = {inv[r]},
                                   !.pre = state, !.preQuota = localQuota]
    /\ UNCHANGED <<now, strategy, providers, localQuota, made, recentCalls, faults, slots>>

\* mutant: a failed call is retried on the same provider
Throws_RetrySame(r, err) ==
    /\ inv[r].pc = "await"
    /\ made < MaxCalls
    /\ LET c == inv[r].candidates[inv[r].i]
           mapped == toProviderError(c.name, err)
       IN /\ err \in RawErrors(c.name)
          /\ err.message \in faults
          /\ state' = markFailure(recordError(state, c.name, mapped, now), c.name)
          /\ inv' = [inv EXCEPT ![r].lastErr = {err}, ![r].calls = Append(@, c.name)]
          /\ recentCalls' = [recentCalls EXCEPT ![c.name] = Append(@, now)]
          /\ made' = made + 1
          /\ ev' = [NoEvent EXCEPT !.op = "throw", !.r = r, !.name = c.name,
                                   !.raw = {err}, !.mapped = {mapped},
                                   !.invoked = {c.name}, !.pre = state,
                                   !.preQuota = localQuota]
    /\ UNCHANGED <<now, strategy, providers, localQuota, faults, slots>>

\* mutant: the last branch of the catch block fails over like the one before
Throws_NeverAborts(r, err) ==
    /\ inv[r].pc = "await"
    /\ LET c == inv[r].candidates[inv[r].i]
           mapped == toProviderError(c.name, err)
           recorded == recordError(state, c.name, mapped, now)
           status == mapped.status
           cur == [inv[r] EXCEPT !.lastErr = {err}]
           e == [NoEvent EXCEPT !.op = "throw", !.r = r, !.name = c.name,
                                !.raw = {err}, !.mapped = {mapped},
                                !.pre = state, !.preQuota = localQuota]
       IN /\ err \in RawErrors(c.name)
          /\ err.message \in faults
          /\ IF status = {401} \/ status = {403}
             THEN Proceed(r, cur, inv[r].i + 1,
                          markFailure(disable(recorded, c.name, authDisableMs, now), c.name), e)
             ELSE IF status = {402}
             THEN Proceed(r, cur, inv[r].i + 1,
                          markFailure(disable(recorded, c.name, paymentDisableMs, now), c.name), e)
             ELSE IF status = {429}
             THEN Proceed(r, cur, inv[r].i + 1,
                          markFailure(cooldown(recorded, c.name, rateLimitCooldownMs, now), c.name), e)
             ELSE Proceed(r, cur, inv[r].i + 1,
                          markFailure(cooldown(recorded, c.name, errorCooldownMs, now), c.name), e)
    /\ UNCHANGED <<now, strategy, providers, faults, slots>>

\* mutant: the last branch of the catch block logs the error and returns
Throws_Swallows(r, err) ==
    /\ inv[r].pc = "await"
    /\ LET c == inv[r].candidates[inv[r].i]
           mapped == toProviderError(c.name, err)
           recorded == recordError(state, c.name, mapped, now)
           status == mapped.status
           cur == [inv[r] EXCEPT !.lastErr = {err}]
           e == [NoEvent EXCEPT !.op = "throw", !.r = r, !.name = c.name,
                                !.raw = {err}, !.mapped = {mapped},
                                !.pre = state, !.preQuota = localQuota]
       IN /\ err \in RawErrors(c.name)
          /\ err.message \in faults
          /\ IF status = {401} \/ status = {403}
             THEN Proceed(r, cur, inv[r].i + 1,
                          markFailure(disable(recorded, c.name, authDisableMs, now), c.name), e)
             ELSE IF status = {402}
             THEN Proceed(r, cur, inv[r].i + 1,
                          markFailure(disable(recorded, c.name, paymentDisableMs, now), c.name), e)
             ELSE IF status = {429}
             THEN Proceed(r, cur, inv[r].i + 1,
                          markFailure(cooldown(recorded, c.name, rateLimitCooldownMs, now), c.name), e)
             ELSE IF mapped.retryable
             THEN Proceed(r, cur, inv[r].i + 1,
                          markFailure(cooldown(recorded, c.name, errorCooldownMs, now), c.name), e)
             ELSE /\ state' = recorded
                  /\ inv' = [inv EXCEPT ![r] = IdleInvocation]
                  /\ ev' = [e EXCEPT !.fin = {cur}]
                  /\ UNCHANGED <<localQuota, recentCalls, made>>
    /\ UNCHANGED <<now, strategy, providers, faults, slots>>

\* the awaited provider call rejects: the catch block, then the loop again
Throws(r, err) ==
    /\ inv[r].pc = "await"
    /\ LET c == inv[r].candidates[inv[r].i]
           mapped == toProviderError(c.name, err)
           recorded == recordError(state, c.name, mapped, now)
           status == mapped.status
           cur == [inv[r] EXCEPT !.lastErr = {err}]
           e == [NoEvent EXCEPT !.op = "throw", !.r = r, !.name = c.name,
                                !.raw = {err}, !.mapped = {mapped},
                                !.pre = state, !.preQuota = localQuota]
       IN /\ err \in RawErrors(c.name)
          /\ err.message \in faults
          /\ IF status = {401} \/ status = {403}
             THEN Proceed(r, cur, inv[r].i + 1,
                          markFailure(disable(recorded, c.name, authDisableMs, now), c.name), e)
             ELSE IF status = {402}
             THEN Proceed(r, cur, inv[r].i + 1,
                          markFailure(disable(recorded, c.name, paymentDisableMs, now), c.name), e)
             ELSE IF status = {429}
             THEN Proceed(r, cur, inv[r].i + 1,
                          markFailure(cooldown(recorded, c.name, rateLimitCooldownMs, now), c.name), e)
             ELSE IF mapped.retryable
             THEN Proceed(r, cur, inv[r].i + 1,
                          markFailure(cooldown(recorded, c.name, errorCooldownMs, now), c.name), e)
             ELSE /\ state' = recorded
                  /\ inv' = [inv EXCEPT ![r] = IdleInvocation]
                  /\ ev' = [e EXCEPT !.thrown = {mapped}, !.fin = {cur}]
                  /\ UNCHANGED <<localQuota, recentCalls, made>>
    /\ UNCHANGED <<now, strategy, providers, faults, slots>>

\* the clock advances; calls that left the trailing window are forgotten
Tick ==
    /\ now < MaxTime
    /\ now' = now + 1
    /\ recentCalls' = [n \in DOMAIN recentCalls |->
                         SelectSeq(recentCalls[n],
                                   LAMBDA x : x >= now + 1 - localQuotaWindowMs)]
    /\ ev' = [NoEvent EXCEPT !.op = "tick"]
    /\ UNCHANGED <<strategy, providers, state, localQuota, inv, made, faults, slots>>

----------------------------------------------------------------------------
(* AnalysisService.processAnalysis with the router as its injected provider *)

\* the request context: structured_data is an object, notes a string or an
\* array of strings (validation.middleware.ts), the id is the caller's
Request(d, n, id) == [structuredData |-> d, notes |-> n, requestId |-> id]
Requests ==
    { Request([title |-> "report"], [kind |-> "string", v |-> "n1"], "req-1"),
      Request([title |-> "report"], [kind |-> "array", v |-> <<"n1">>], "req-2"),
      Request([title |-> "report", revenue |-> "120000"],
              [kind |-> "array", v |-> <<"n1", "n2">>], "req-1") }

\* mutant: a string is handed on as it is, as a list of its characters would be
NotesArray_Unwrapped(notes) == IF notes.kind = "array" THEN notes.v ELSE <<>>

\* Array.isArray(notes) ? notes : [notes]
NotesArray(notes) == IF notes.kind = "array" THEN notes.v ELSE <<notes.v>>

\* the locals of processAnalysis; received is history: what each provider
\* call was handed, in order; abandoned is the environment: the client of
\* the request has gone away
IdleService ==
    [pc |-> "idle", request |-> {}, startTime |-> 0, args |-> {},
     received |-> <<>>, response |-> {}, thrown |-> {}, abandoned |-> FALSE]

\* Object.keys(structuredData).length
KeyCount(structuredData) == Cardinality(DOMAIN structuredData)

generateFallbackResponse(structuredData, notes, requestId) ==
    [summary |-> <<"Analysis of", KeyCount(structuredData), "data fields and",
                   Len(notes), "notes.">>,
     key_insights |-> <<"System generated basic analysis due to service limitations",
                        "Please try again later for AI-powered insights">>,
     next_actions |-> <<"Retry analysis in a few moments",
                        "Contact support if issue persists">>,
     metadata |-> [confidence_score |-> 30, model_version |-> "fallback-v1",
                   processing_time_ms |-> 100, request_id |-> requestId,
                   fallback |-> TRUE]]

\* the return statement of the try block
SuccessResponse(analysisResult, processingTime, requestId) ==
    [summary |-> analysisResult.summary,
     key_insights |-> analysisResult.key_insights,
     next_actions |-> analysisResult.next_actions,
     metadata |-> [confidence_score |-> analysisResult.metadata.confidence_score,
                   model_version |-> analysisResult.metadata.model_version,
                   processing_time_ms |-> processingTime,
                   request_id |-> requestId]]

\* mutant: the catch block lets the error through
Catch_Rethrow(sv, error) == [sv EXCEPT !.pc = "done", !.thrown = {error}]

\* the catch block: log error.message, return the fallback
Catch(sv, error) ==
    LET a == CHOOSE x \in sv.args : TRUE
    IN [sv EXCEPT !.pc = "done",
                  !.response = {generateFallbackResponse(a.structuredData, a.notes,
                                                         a.requestId)}]

\* c.provider.analyzeData(structuredData, notes, requestId): the router
\* hands on its own three parameters
Handed(sv, name) ==
    LET a == CHOOSE x \in sv.args : TRUE
    IN [provider |-> name, structuredData |-> a.structuredData,
        notes |-> a.notes, requestId |-> a.requestId]

\* processAnalysis after the step e of the router invocation it awaits
Awaited(sv, e, t) ==
    LET got == IF e.invoked = {} THEN sv.received
               ELSE Append(sv.received, Handed(sv, CHOOSE n \in e.invoked : TRUE))
        seen == [sv EXCEPT !.received = got]
        a == CHOOSE x \in sv.args : TRUE
    IN IF e.result # {}
       THEN [seen EXCEPT !.pc = "done",
                         !.response = {SuccessResponse(CHOOSE x \in e.result : TRUE,
                                                       t - sv.startTime, a.requestId)}]
       ELSE IF e.thrown # {}
       THEN Catch(seen, CHOOSE x \in e.thrown : TRUE)
       ELSE [seen EXCEPT !.pc = "await"]

\* processAnalysis is called: up to the first provider call of the router
processAnalysis(req) ==
    /\ svc.pc \in {"idle", "done"}
    /\ \E estTokens \in TokenEstimates : Begin(1, estTokens)
    /\ svc' = Awaited([IdleService EXCEPT
                          !.request = {req}, !.startTime = now,
                          !.args = {[structuredData |-> req.structuredData,
                                     notes |-> NotesArray(req.notes),
                                     requestId |-> req.requestId]}],
                      ev', now)

\* the provider call the router awaits resolves
ProviderResolves(res) ==
    /\ svc.pc = "await"
    /\ Returns(1, res)
    /\ svc' = Awaited(svc, ev', now)

\* the provider call the router awaits rejects
ProviderRejects(err) ==
    /\ svc.pc = "await"
    /\ Throws(1, err)
    /\ svc' = Awaited(svc, ev', now)

\* the client disconnects while its request is being processed; nothing in
\* the controller, the service or the router is told
Abandon ==
    /\ svc.pc = "await"
    /\ ~svc.abandoned
    /\ svc' = [svc EXCEPT !.abandoned = TRUE]
    /\ ev' = [NoEvent EXCEPT !.op = "abandon"]
    /\ UNCHANGED <<now, strategy, providers, state, localQuota, inv, recentCalls,
                   made, faults, slots>>

----------------------------------------------------------------------------
(* AnalyzeController.analyze with the RedisService cache in front of       *)
(* processAnalysis, one request at a time                                   *)

\* the TTL the controller hands to set (3600 seconds), in time units
cacheTtlSeconds == 2

\* JSON.stringify puts a value into a text; JSON.parse takes the value out
\* of a text and throws on what is not one
Stringify(v) == [json |-> v]
IsJsonText(s) == DOMAIN s = {"json"}
Parse(s) == s.json
SyntaxError == PlainError(<<"is not valid JSON">>)

\* Array.prototype.join("|")
RECURSIVE Join(_)
Join(v) ==
    IF Len(v) = 0 THEN <<>>
    ELSE IF Len(v) = 1 THEN <<v[1]>>
    ELSE <<v[1], "|">> \o Join(Tail(v))

\* helpers.generateCacheKey: "analysis:" and the md5 of the data text
\* followed by the notes text, the digest taken as injective
generateCacheKey(structuredData, notes) ==
    <<"analysis:", Stringify(structuredData),
      IF notes.kind = "array" THEN Join(notes.v) ELSE <<notes.v>>>>

\* what the server answers a GET with at time t: an entry set with EX is
\* gone once its time is up
Live(rd, key, t) == {e \in rd.store : e.key = key /\ t < e.expiresAt}

\* mutant: a command on a client that is not connected throws
get_Throws(rd, key, commandOk, t) ==
    IF ~rd.isConnected \/ ~commandOk
    THEN [value |-> {}, thrown |-> {PlainError(<<"The client is closed">>)}]
    ELSE [value |-> {Parse(e.value) : e \in {x \in Live(rd, key, t) : IsJsonText(x.value)}},
          thrown |-> {}]

\* RedisService.get; commandOk: client.get resolves (it rejects otherwise).
\* value is empty for null
get(rd, key, commandOk, t) ==
    IF ~rd.isConnected THEN [value |-> {}, thrown |-> {}]
    ELSE IF ~commandOk THEN [value |-> {}, thrown |-> {}]
    ELSE [value |-> {Parse(e.value) : e \in {x \in Live(rd, key, t) : IsJsonText(x.value)}},
          thrown |-> {}]

\* mutant: the entry is written without an expiry
set_NoExpiry(rd, key, value, ttlSeconds, commandOk, t) ==
    IF ~rd.isConnected \/ ~commandOk
    THEN [ok |-> FALSE, rd |-> rd, thrown |-> {}]
    ELSE [ok |-> TRUE, thrown |-> {},
          rd |-> [rd EXCEPT !.store =
                     {e \in @ : e.key # key /\ t < e.expiresAt}
                     \cup {[key |-> key, value |-> Stringify(value),
                            expiresAt |-> t + ttlSeconds + MaxTime + 1]}]]

\* RedisService.set; commandOk: client.set resolves
set(rd, key, value, ttlSeconds, commandOk, t) ==
    IF ~rd.isConnected THEN [ok |-> FALSE, rd |-> rd, thrown |-> {}]
    ELSE IF ~commandOk THEN [ok |-> FALSE, rd |-> rd, thrown |-> {}]
    ELSE [ok |-> TRUE, thrown |-> {},
          rd |-> [rd EXCEPT !.store =
                     {e \in @ : e.key # key /\ t < e.expiresAt}
                     \cup {[key |-> key, value |-> Stringify(value),
                            expiresAt |-> t + ttlSeconds]}]]

\* { ...f, ...g }
Merge(f, g) ==
    [k \in DOMAIN f \cup DOMAIN g |-> IF k \in DOMAIN g THEN g[k] ELSE f[k]]

\* the body sent on a cache hit
CachedResponse(cachedResult, requestId) ==
    [success |-> TRUE,
     data |-> Merge(cachedResult,
                    [metadata |-> Merge(cachedResult.metadata,
                                        [cached |-> TRUE, request_id |-> requestId])])]

\* the body sent after processAnalysis
FreshResponse(analysisResult, requestId, cacheKey) ==
    [success |-> TRUE,
     data |-> Merge(analysisResult,
                    [metadata |-> Merge(analysisResult.metadata,
                                        [cached |-> FALSE, request_id |-> requestId,
                                         cache_key |-> cacheKey])])]

\* the locals of analyze; getFailed, hit and setResult are history: whether
\* client.get rejected, whether the cache answered, and what set returned;
\* passed is what went to next(error)
IdleController ==
    [pc |-> "idle", request |-> {}, cacheKey |-> <<>>, getFailed |-> FALSE,
     hit |-> FALSE, setResult |-> {}, response |-> {}, passed |-> {}]

\* analyze once processAnalysis has settled: set, then respond
Stored(c, rd, analysisResult, requestId, commandOk, t) ==
    LET s == set(rd, c.cacheKey, Stringify(analysisResult), cacheTtlSeconds,
                 commandOk, t)
    IN IF s.thrown # {}
       THEN [ctl |-> [c EXCEPT !.pc = "done", !.passed = s.thrown], redis |-> s.rd]
       ELSE [ctl |-> [c EXCEPT !.pc = "done", !.setResult = {s.ok},
                               !.response = {FreshResponse(analysisResult, requestId,
                                                           c.cacheKey)}],
             redis |-> s.rd]

\* analyze after the step that left processAnalysis as sv
Resumed(c, rd, sv, commandOk, t) ==
    IF sv.pc # "done" THEN [ctl |-> [c EXCEPT !.pc = "await"], redis |-> rd]
    ELSE IF sv.thrown # {}
    THEN [ctl |-> [c EXCEPT !.pc = "done", !.passed = sv.thrown], redis |-> rd]
    ELSE Stored(c, rd, CHOOSE x \in sv.response : TRUE,
                (CHOOSE a \in sv.args : TRUE).requestId, commandOk, t)

\* POST /api/analyze: the cache first, processAnalysis on a miss
analyze(req, getOk, setOk) ==
    /\ ctl.pc \in {"idle", "done"}
    /\ LET cacheKey == generateCacheKey(req.structuredData, req.notes)
           g == get(redis, cacheKey, getOk, now)
           c == [IdleController EXCEPT !.request = {req}, !.cacheKey = cacheKey,
                                       !.getFailed = redis.isConnected /\ ~getOk]
       IN IF g.thrown # {} \/ g.value # {}
          THEN /\ ctl' = IF g.thrown # {}
                         THEN [c EXCEPT !.pc = "done", !.passed = g.thrown]
                         ELSE LET cachedResultStr == CHOOSE v \in g.value : TRUE
                              IN IF IsJsonText(cachedResultStr)
                                 THEN [c EXCEPT !.pc = "done", !.hit = TRUE,
                                                !.response =
                                                    {CachedResponse(Parse(cachedResultStr),
                                                                    req.requestId)}]
                                 ELSE [c EXCEPT !.pc = "done", !.hit = TRUE,
                                                !.passed = {SyntaxError}]
               /\ ev' = [NoEvent EXCEPT !.op = "hit"]
               /\ UNCHANGED <<now, strategy, providers, state, localQuota, inv,
                              recentCalls, made, faults, slots, svc, redis>>
          ELSE /\ processAnalysis(req)
               /\ LET a == Resumed(c, redis, svc', setOk, now)
                  IN ctl' = a.ctl /\ redis' = a.redis

\* the provider call awaited below analyze resolves
analyzeResolves(res, setOk) ==
    /\ ctl.pc = "await"
    /\ ProviderResolves(res)
    /\ LET a == Resumed(ctl, redis, svc', setOk, now)
       IN ctl' = a.ctl /\ redis' = a.redis

\* the provider call awaited below analyze rejects
analyzeRejects(err, setOk) ==
    /\ ctl.pc = "await"
    /\ ProviderRejects(err)
    /\ LET a == Resumed(ctl, redis, svc', setOk, now)
       IN ctl' = a.ctl /\ redis' = a.redis

\* the client's "error" event
RedisError ==
    /\ redis.isConnected
    /\ redis' = [redis EXCEPT !.isConnected = FALSE]
    /\ ev' = [NoEvent EXCEPT !.op = "redis"]
    /\ UNCHANGED <<now, strategy, providers, state, localQuota, inv, recentCalls,
                   made, faults, slots, svc, ctl>>

\* client.connect() resolves, or the client's "connect" event
RedisConnect ==
    /\ ~redis.isConnected
    /\ redis' = [redis EXCEPT !.isConnected = TRUE]
    /\ ev' = [NoEvent EXCEPT !.op = "redis"]
    /\ UNCHANGED <<now, strategy, providers, state, localQuota, inv, recentCalls,
                   made, faults, slots, svc, ctl>>

----------------------------------------------------------------------------

\* the state the constructor leaves
Constructed(deployments, concurrency) ==
    /\ now = 0
    /\ \E d \in deployments : strategy = d.strategy /\ providers = d.providers
    /\ faults \in FaultProfiles
    /\ slots = concurrency
    /\ state = [n \in Names(providers) |->
                  [cooldown_until_ms |-> 0, consecutive_failures |-> 0,
                   disabled_until_ms |-> 0, last_error |-> {}]]
    /\ localQuota = [n \in Names(providers) |-> <<>>]
    /\ inv = [r \in Invocations |-> IdleInvocation]
    /\ recentCalls = [n \in Names(providers) |-> <<>>]
    /\ made = 0
    /\ ev = NoEvent
    /\ svc = IdleService
    /\ est = Estimated(<<>>)
    /\ ctl = IdleController
    /\ redis = [isConnected |-> FALSE, store |-> {}]

\* the router called directly
Next ==
    \/ \E r \in Invocations, estTokens \in TokenEstimates :
          Begin(r, estTokens) /\ UNCHANGED <<svc, est, ctl, redis>>
    \/ \E r \in Invocations, res \in UNION {Results(p) : p \in ProviderName} :
          Returns(r, res) /\ UNCHANGED <<svc, est, ctl, redis>>
    \/ \E r \in Invocations, err \in UNION {RawErrors(p) : p \in ProviderName} :
          Throws(r, err) /\ UNCHANGED <<svc, est, ctl, redis>>
    \/ Tick /\ UNCHANGED <<svc, est, ctl, redis>>

\* one or two providers, two invocations in flight at once
Init == Constructed({d \in Deployments : Len(d.providers) <= 2}, Invocations)

Spec == Init /\ [][Next]_vars

\* every deployment, the three providers of the README among them, one
\* invocation at a time
InitRanked == Constructed(Deployments, {1})

SpecRanked == InitRanked /\ [][Next]_vars

\* the router when every provider call settles: the promise awaited by
\* invocation r resolves or rejects
Settle(r) ==
    \/ \E res \in UNION {Results(p) : p \in ProviderName} :
          Returns(r, res) /\ UNCHANGED <<svc, est, ctl, redis>>
    \/ \E err \in UNION {RawErrors(p) : p \in ProviderName} :
          Throws(r, err) /\ UNCHANGED <<svc, est, ctl, redis>>

SpecSettling ==
    InitRanked /\ [][Next]_vars /\ \A r \in Invocations : WF_vars(Settle(r))

\* the router behind the AnalysisService, one request at a time
NextService ==
    \/ \E req \in Requests : processAnalysis(req) /\ UNCHANGED <<est, ctl, redis>>
    \/ \E res \in UNION {Results(p) : p \in ProviderName} :
          ProviderResolves(res) /\ UNCHANGED <<est, ctl, redis>>
    \/ \E err \in UNION {RawErrors(p) : p \in ProviderName} :
          ProviderRejects(err) /\ UNCHANGED <<est, ctl, redis>>
    \/ Abandon /\ UNCHANGED <<est, ctl, redis>>
    \/ Tick /\ UNCHANGED <<svc, est, ctl, redis>>

InitService == Constructed({d \in Deployments : Len(d.providers) <= 2}, {1})

SpecService == InitService /\ [][NextService]_vars

\* the analyze endpoint: the controller and its cache in front of the service
AnalyzeRequests == {req \in Requests : KeyCount(req.structuredData) = 1}
AnalyzeResults == {res \in UNION {Results(p) : p \in ProviderName} : res.summary = "s1"}

AnalyzeErrors == UNION {StructuredErrors(p) : p \in ProviderName}

NextAnalyze ==
    \/ \E req \in AnalyzeRequests, getOk \in BOOLEAN, setOk \in BOOLEAN :
          analyze(req, getOk, setOk) /\ UNCHANGED est
    \/ \E res \in AnalyzeResults, setOk \in BOOLEAN :
          analyzeResolves(res, setOk) /\ UNCHANGED est
    \/ \E err \in AnalyzeErrors, setOk \in BOOLEAN :
          analyzeRejects(err, setOk) /\ UNCHANGED est
    \/ RedisError /\ UNCHANGED est
    \/ RedisConnect /\ UNCHANGED est
    \/ Tick /\ UNCHANGED <<svc, est, ctl, redis>>

\* one registered provider, whose upstream shows rate limits, server errors
\* and timeouts
InitAnalyze ==
    /\ Constructed({d \in Deployments : Len(d.providers) = 1}, {1})
    /\ <<"rate limit">> \in faults

SpecAnalyze == InitAnalyze /\ [][NextAnalyze]_vars

\* estimateTokens applied to the texts of up to MaxTextLen characters
NextTokens ==
    \E ch \in Chars :
        /\ Type(ch)
        /\ UNCHANGED <<now, strategy, providers, state, localQuota, inv,
                       recentCalls, made, faults, slots, ev, svc, ctl, redis>>

SpecTokens == InitRanked /\ [][NextTokens]_vars

\* the router under a clock that keeps running after the last call: calls are
\* made and settled up to MaxTime, and no deadline a call can set lies past
\* Horizon
Horizon ==
    MaxTime + Max(Max(rateLimitCooldownMs, errorCooldownMs),
                  Max(authDisableMs, paymentDisableMs))

\* Date.now() grows
Elapse ==
    /\ now < Horizon
    /\ now' = now + 1
    /\ recentCalls' = [n \in DOMAIN recentCalls |->
                         SelectSeq(recentCalls[n],
                                   LAMBDA x : x >= now + 1 - localQuotaWindowMs)]
    /\ ev' = [NoEvent EXCEPT !.op = "tick"]
    /\ UNCHANGED <<strategy, providers, state, localQuota, inv, made, faults,
                   slots, svc, est, ctl, redis>>

NextClock ==
    \/ \E r \in Invocations, estTokens \in TokenEstimates :
          now <= MaxTime /\ Begin(r, estTokens) /\ UNCHANGED <<svc, est, ctl, redis>>
    \/ \E r \in Invocations, res \in UNION {Results(p) : p \in ProviderName} :
          now <= MaxTime /\ Returns(r, res) /\ UNCHANGED <<svc, est, ctl, redis>>
    \/ \E r \in Invocations, err \in UNION {RawErrors(p) : p \in ProviderName} :
          now <= MaxTime /\ Throws(r, err) /\ UNCHANGED <<svc, est, ctl, redis>>
    \/ Elapse

SpecClock == Init /\ [][NextClock]_vars /\ WF_vars(Elapse)

----------------------------------------------------------------------------
(* What the claims below read off the last step *)

StepOps == {"begin", "return", "throw"}

\* the locals of the invocation that ran the last step, as the step left them
EvFin == CHOOSE f \in ev.fin : TRUE
EvInv == IF ev.fin # {} THEN EvFin ELSE inv[ev.r]
EvMapped == CHOOSE m \in ev.mapped : TRUE
EvRaw == CHOOSE m \in ev.raw : TRUE

Pos(cands, name) == CHOOSE k \in 1..Len(cands) : cands[k].name = name

\* the last step ended the invocation by the throw inside the catch block
Aborted ==
    ev.op = "throw" /\ ev.fin # {} /\ EvFin.i <= Len(EvFin.candidates)

\* the last step ended the invocation by the throw after the loop
Exhausted ==
    ev.op \in {"begin", "throw"} /\ ev.fin # {} /\ EvFin.i > Len(EvFin.candidates)

\* the candidates the loop looked at in the last step
Scanned ==
    IF ev.op \in {"begin", "throw"} /\ ~Aborted
    THEN LET cands == EvInv.candidates
             from == IF ev.op = "begin" THEN 1 ELSE Pos(cands, ev.name) + 1
             to == IF ev.invoked # {} THEN EvInv.i ELSE Len(cands)
         IN {cands[k].name : k \in from..to}
    ELSE {}

NoDuplicates(s) == \A j, k \in 1..Len(s) : j # k => s[j] # s[k]

----------------------------------------------------------------------------
\* C1: a provider is invoked only when neither its disabled_until_ms nor its
\* cooldown_until_ms lies after the current time; a candidate that the loop
\* reaches while one of the two deadlines is in the future is passed over:
\* it is not invoked and its quota window is left as it was.
C1_InvokedOnlyWhenEligible ==
    /\ \A p \in ev.invoked :
          /\ ev.pre[p].disabled_until_ms <= now
          /\ ev.pre[p].cooldown_until_ms <= now
          /\ state[p].disabled_until_ms <= now
          /\ state[p].cooldown_until_ms <= now
    /\ \A p \in Scanned :
          (ev.pre[p].disabled_until_ms > now \/ ev.pre[p].cooldown_until_ms > now)
          => /\ p \notin ev.invoked
             /\ p \notin ev.rejected
             /\ localQuota[p] = ev.preQuota[p]

C1_Witness ==
    /\ ev.op \in {"begin", "throw"}
    /\ ev.invoked # {}
    /\ \E p \in Scanned :
          /\ ev.pre[p].cooldown_until_ms > now \/ ev.pre[p].disabled_until_ms > now
          /\ p \in ev.skipped

----------------------------------------------------------------------------
\* C2: within one invocation no candidate is called twice: the providers an
\* invocation has called are pairwise different and were called in the order
\* of the ranked list, whatever the calls resolved to.
C2_OneCallPerCandidate ==
    \A c \in {inv[r] : r \in Invocations} \cup ev.fin :
        /\ NoDuplicates(c.calls)
        /\ \A j, k \in 1..Len(c.calls) :
              j < k => Pos(c.candidates, c.calls[j]) < Pos(c.candidates, c.calls[k])
        /\ Len(c.calls) <= Len(c.candidates)

\* an invocation went on to a second candidate after the first one failed
C2_Witness ==
    /\ ev.op = "throw"
    /\ ev.invoked # {}
    /\ Len(inv[ev.r].calls) = 2
    /\ inv[ev.r].calls[1] = ev.name

----------------------------------------------------------------------------
\* C3: the step in which a provider call succeeds ends the invocation with
\* exactly the value that call resolved to; in that step no other candidate
\* is looked at, no quota window changes and no provider is invoked.
C3_FirstSuccessWins ==
    ev.op = "return" =>
        /\ ev.fin # {}
        /\ inv[ev.r] = IdleInvocation
        /\ ev.thrown = {}
        /\ Cardinality(ev.result) = 1
        /\ \A res \in ev.result : res \in Results(ev.name)
        /\ EvFin.calls[Len(EvFin.calls)] = ev.name
        /\ EvFin.candidates[EvFin.i].name = ev.name
        /\ ev.invoked = {} /\ ev.skipped = {} /\ ev.rejected = {}
        /\ localQuota = ev.preQuota
        /\ \A p \in Names(providers) : p # ev.name => state[p] = ev.pre[p]

\* a success of a candidate that has healthy candidates ranked after it
C3_Witness ==
    /\ ev.op = "return"
    /\ EvFin.i < Len(EvFin.candidates)
    /\ \E k \in (EvFin.i + 1)..Len(EvFin.candidates) :
          LET p == EvFin.candidates[k].name
          IN /\ state[p].cooldown_until_ms <= now
             /\ state[p].disabled_until_ms <= now
             /\ Len(Fresh(localQuota[p], now)) < localQuotaMax

----------------------------------------------------------------------------
\* C4: a step that handles failures and quota rejections only (the start of
\* an invocation, or a rejected call with the loop that follows it) lowers no
\* provider's cooldown_until_ms or disabled_until_ms, and a candidate over
\* quota gets max(existing, now + rateLimitCooldownMs); a later failure with
\* a shorter duration leaves the longer deadline standing.
C4_DeadlinesNeverShortened ==
    ev.op \in {"begin", "throw"} =>
        /\ \A p \in Names(providers) :
              /\ state[p].cooldown_until_ms >= ev.pre[p].cooldown_until_ms
              /\ state[p].disabled_until_ms >= ev.pre[p].disabled_until_ms
        /\ \A p \in ev.rejected :
              state[p].cooldown_until_ms =
                  Max(ev.pre[p].cooldown_until_ms, now + rateLimitCooldownMs)

\* a failure that asks for the short cooldown while a longer one is running
C4_Witness ==
    /\ ev.op = "throw"
    /\ EvMapped.status = {}
    /\ EvMapped.retryable
    /\ ev.pre[ev.name].cooldown_until_ms > now + errorCooldownMs
    /\ state[ev.name].cooldown_until_ms = ev.pre[ev.name].cooldown_until_ms

----------------------------------------------------------------------------
\* C5: no provider is called more than localQuotaMax times within a window
\* of length localQuotaWindowMs; a candidate is refused by the quota exactly
\* when localQuotaMax calls to it lie in the window, and a refused candidate
\* is not called and is in cooldown until now + rateLimitCooldownMs at least.
C5_QuotaPerWindow ==
    /\ \A p \in Names(providers) : Len(recentCalls[p]) <= localQuotaMax
    /\ \A p \in ev.rejected :
          /\ Len(recentCalls[p]) = localQuotaMax
          /\ p \notin ev.invoked
          /\ state[p].cooldown_until_ms >= now + rateLimitCooldownMs
    /\ \A p \in ev.invoked :
          /\ localQuota[p] = Append(Fresh(ev.preQuota[p], now), now)
          /\ Len(Fresh(ev.preQuota[p], now)) < localQuotaMax

\* the third attempt inside the window is refused and the loop fails over
C5_Witness ==
    /\ ev.rejected # {}
    /\ ev.invoked # {}

----------------------------------------------------------------------------
\* C6: under cost_then_failover the ranked list is the registered list in
\* ascending order of estimateCostUsd, providers of equal cost in their
\* registration order, and the calls of an invocation follow that order;
\* the registration with costs 20, 10, 25 is ranked second, first, third.
Registered(name) == providers[Pos(providers, name)]

C6_CostAscendingStable ==
    strategy = "cost_then_failover" =>
        /\ ev.op = "begin" =>
              LET c == EvInv.candidates
                  tok == ev.estTokens
              IN /\ Len(c) = Len(providers)
                 /\ {c[k] : k \in 1..Len(c)} = {providers[k] : k \in 1..Len(providers)}
                 /\ \A j, k \in 1..Len(c) :
                       j < k =>
                         /\ estimateCostUsd(c[j], tok) <= estimateCostUsd(c[k], tok)
                         /\ estimateCostUsd(c[j], tok) = estimateCostUsd(c[k], tok)
                              => Pos(providers, c[j].name) < Pos(providers, c[k].name)
                 /\ [k \in 1..Len(providers) |-> providers[k].cost_per_1k] = <<20, 10, 25>>
                       => c = <<providers[2], providers[1], providers[3]>>
        /\ \A c \in {inv[r] : r \in Invocations} \cup ev.fin :
              \A j, k \in 1..Len(c.calls), tok \in TokenEstimates :
                 j < k =>
                   /\ estimateCostUsd(Registered(c.calls[j]), tok)
                        <= estimateCostUsd(Registered(c.calls[k]), tok)
                   /\ estimateCostUsd(Registered(c.calls[j]), tok)
                        = estimateCostUsd(Registered(c.calls[k]), tok)
                        => Pos(providers, c.calls[j]) < Pos(providers, c.calls[k])

\* the three providers of costs 20, 10, 25 were tried second, first, third
C6_Witness ==
    /\ strategy = "cost_then_failover"
    /\ [k \in 1..Len(providers) |-> providers[k].cost_per_1k] = <<20, 10, 25>>
    /\ \E r \in Invocations :
          inv[r].calls = <<providers[2].name, providers[1].name, providers[3].name>>

----------------------------------------------------------------------------
\* C7: when the loop ends without a propagated abort (every candidate was
\* skipped or failed over), what the caller gets is the "all providers
\* failed" error, which is not the error of any provider call.
C7_AllProvidersFailedError ==
    Exhausted =>
        /\ ev.thrown = {AllFailedError}
        /\ ev.thrown \cap EvFin.lastErr = {}

----------------------------------------------------------------------------
SingleProvider401 ==
    Len(providers) = 1 /\ ev.op = "throw" /\ EvMapped.status = {401}

\* C8: a single registered provider that fails with 401 is disabled until
\* now + authDisableMs and the caller gets the "all providers failed" error.
C8_SingleProviderUnauthorized ==
    SingleProvider401 =>
        /\ state[ev.name].disabled_until_ms = now + authDisableMs
        /\ Exhausted
        /\ ev.thrown = {AllFailedError}

----------------------------------------------------------------------------
----------------------------------------------------------------------------
PlainInsufficientCredit ==
    /\ ev.op = "throw"
    /\ EvRaw.type = "Error"
    /\ Test({"insufficient credit"}, EvRaw.message)

\* C10 as stated: a plain error whose message contains "insufficient credit"
\* is classified 402 and not retryable, its provider is disabled for
\* paymentDisableMs and the loop goes on.
C10_Original ==
    PlainInsufficientCredit =>
        /\ EvMapped.status = {402}
        /\ ~EvMapped.retryable
        /\ state[ev.name].disabled_until_ms >= now + paymentDisableMs
        /\ ~Aborted

\* C10 as amended: the same for a message that contains "insufficient
\* credit" and neither a rate-limit nor an authorization indicator.
C10_PaymentByMessage ==
    (/\ PlainInsufficientCredit
     /\ ~Test(RateLimitPattern, EvRaw.message)
     /\ ~Test(AuthPattern, EvRaw.message)) =>
        /\ EvMapped.status = {402}
        /\ ~EvMapped.retryable
        /\ EvMapped.type = "AIProviderError"
        /\ state[ev.name].disabled_until_ms
              = Max(ev.pre[ev.name].disabled_until_ms, now + paymentDisableMs)
        /\ state[ev.name].disabled_until_ms >= now + paymentDisableMs
        /\ ~Aborted
        /\ ev.thrown # ev.mapped

\* "insufficient credit" from the first provider, and the second is invoked
C10_Witness ==
    /\ PlainInsufficientCredit
    /\ EvRaw.message = <<"insufficient credit">>
    /\ EvMapped.status = {402}
    /\ ev.invoked # {}

----------------------------------------------------------------------------
\* C11: when a call fails with a classified error that is not retryable and
\* whose status is none of 401, 403, 402, 429, the caller gets that
\* classified error at once: the step ends the invocation, invokes no
\* further candidate, and examines none (no candidate passed over, no quota
\* consumed, no other provider's state touched), whatever the health of the
\* candidates ranked after it.
NonRetryableUnknown ==
    /\ ev.op = "throw"
    /\ ~EvMapped.retryable
    /\ EvMapped.status \cap {401, 403, 402, 429} = {}

C11_NonRetryableAborts ==
    NonRetryableUnknown =>
        /\ ev.thrown = ev.mapped
        /\ ev.result = {}
        /\ ev.invoked = {}
        /\ ev.skipped = {} /\ ev.rejected = {}
        /\ Aborted
        /\ inv[ev.r].pc = "idle"
        /\ localQuota = ev.preQuota
        /\ \A n \in Names(providers) : n # ev.name => state[n] = ev.pre[n]

\* a 400 from the first candidate while the next one is healthy and has
\* quota left
C11_Witness ==
    /\ NonRetryableUnknown
    /\ EvMapped.status = {400}
    /\ EvFin.i < Len(EvFin.candidates)
    /\ LET nx == EvFin.candidates[EvFin.i + 1].name
       IN /\ ~isDisabled(state, nx, now)
          /\ ~isInCooldown(state, nx, now)
          /\ Len(Fresh(localQuota[nx], now)) < localQuotaMax

----------------------------------------------------------------------------
\* C12: for every raw error that is not already a structured provider error,
\* the classified status follows the precedence rate-limit (429), then
\* authorization (401), then payment (402), else undefined, and retryable is
\* false exactly when the status assigned is 401 or 402 (so it is true for a
\* message that shows a rate-limit indicator next to an authorization or
\* payment indicator).
C12_ClassifyPrecedence ==
    (ev.op = "throw" /\ EvRaw.type # "AIProviderError") =>
        LET msg == EvRaw.message
            assigned ==
                IF Test(RateLimitPattern, msg) THEN {429}
                ELSE IF Test(AuthPattern, msg) THEN {401}
                ELSE IF Test(PaymentPattern, msg) THEN {402}
                ELSE {}
        IN /\ EvMapped.status = assigned
           /\ EvMapped.retryable = (assigned \notin {{401}, {402}})

----------------------------------------------------------------------------
(* What the claims about processAnalysis read *)

SvcRequest == CHOOSE q \in svc.request : TRUE
SvcResponse == CHOOSE q \in svc.response : TRUE
EvResult == CHOOSE q \in ev.result : TRUE

\* C13: processAnalysis never throws because the router (or a provider
\* behind it) failed: whatever the router throws, processAnalysis ends in
\* the same step with a response that has a summary, insights and actions,
\* metadata.fallback = true, confidence_score = 0.3, model_version
\* "fallback-v1" and the request id of its caller.
C13_FallbackOnFailure ==
    /\ svc.thrown = {}
    /\ ev.thrown # {} =>
          /\ svc.pc = "done"
          /\ svc.response # {}
          /\ \A resp \in svc.response :
                /\ resp.summary # <<>>
                /\ resp.key_insights # <<>>
                /\ resp.next_actions # <<>>
                /\ resp.metadata.fallback = TRUE
                /\ resp.metadata.confidence_score = 30
                /\ resp.metadata.model_version = "fallback-v1"
                /\ resp.metadata.request_id = SvcRequest.requestId

\* the second provider failed too and the caller of request req-2 got the
\* fallback
C13_Witness ==
    /\ ev.op = "throw"
    /\ ev.thrown # {}
    /\ Len(svc.received) = 2
    /\ svc.response # {}
    /\ SvcRequest.requestId = "req-2"
    /\ SvcResponse.metadata.request_id = "req-2"
    /\ SvcResponse.metadata.fallback

----------------------------------------------------------------------------
\* C14: every provider call of a request is handed the caller's structured
\* data, the caller's notes as an array (a string becomes the array of that
\* one string) and the caller's request id, one call per candidate the router
\* attempted; and when a call succeeds the response has the summary,
\* key_insights and next_actions of that provider's answer and the caller's
\* request id in metadata.request_id.
C14_RequestContextUnchanged ==
    /\ \A k \in 1..Len(svc.received) :
          /\ svc.received[k].structuredData = SvcRequest.structuredData
          /\ svc.received[k].notes =
                (IF SvcRequest.notes.kind = "array" THEN SvcRequest.notes.v
                 ELSE <<SvcRequest.notes.v>>)
          /\ svc.received[k].requestId = SvcRequest.requestId
    /\ (ev.op \in StepOps) =>
          [k \in 1..Len(svc.received) |-> svc.received[k].provider] = EvInv.calls
    /\ ev.result # {} =>
          /\ svc.pc = "done"
          /\ svc.response # {}
          /\ SvcResponse.summary = EvResult.summary
          /\ SvcResponse.key_insights = EvResult.key_insights
          /\ SvcResponse.next_actions = EvResult.next_actions
          /\ SvcResponse.metadata.request_id = SvcRequest.requestId

\* notes given as a string; the first provider failed, the second answered
C14_Witness ==
    /\ ev.result # {}
    /\ Len(svc.received) = 2
    /\ SvcRequest.notes.kind = "string"
    /\ svc.received[2].notes = <<"n1">>
    /\ svc.received[2].provider = EvResult.model_version
    /\ SvcResponse.summary = EvResult.summary

----------------------------------------------------------------------------
\* C16: with several invocations in flight, the quota window a check reads
\* holds every call admitted to that provider so far (no admission falls
\* between another invocation's read and append), so the invocation that
\* takes the last slot of a window fills it, and a check by another
\* invocation in the same window is refused: a provider never has more than
\* localQuotaMax calls admitted in one window.
InFlightOn(p) ==
    {r \in Invocations :
        inv[r].pc = "await" /\ inv[r].candidates[inv[r].i].name = p}

C16_LastSlotAdmitsOne ==
    \A p \in Names(providers) :
        /\ Fresh(localQuota[p], now) = recentCalls[p]
        /\ Len(Fresh(localQuota[p], now)) <= localQuotaMax
        /\ (p \in ev.invoked /\ Len(Fresh(ev.preQuota[p], now)) = localQuotaMax - 1)
              => Len(Fresh(localQuota[p], now)) = localQuotaMax
        /\ (p \in ev.rejected /\ InFlightOn(p) # {})
              => /\ ev.r \notin InFlightOn(p)
                 /\ localQuota[p] = ev.preQuota[p]

\* one slot was left: the invocation still in flight took it at this very
\* time, and the invocation that has just run was refused
C16_Witness ==
    /\ ev.op = "begin"
    /\ \E p \in ev.rejected :
          /\ InFlightOn(p) # {}
          /\ Len(localQuota[p]) = localQuotaMax
          /\ localQuota[p][localQuotaMax] = now
    /\ ev.invoked # {}

----------------------------------------------------------------------------
\* C17: a provider call that times out is a retryable failure without a
\* status: the provider gets the error cooldown (cooldown_until_ms at least
\* now + errorCooldownMs), its disabled_until_ms stays as it was, and the
\* loop goes on to the next candidate; the step throws only when no
\* candidate is left.
TimedOut ==
    /\ ev.op = "throw"
    /\ EvRaw.type = "AIProviderError"
    /\ EvRaw.message = <<"request timeout">>

C17_TimeoutFailsOver ==
    TimedOut =>
        /\ EvMapped.retryable
        /\ EvMapped.status \cap {401, 403, 402} = {}
        /\ state[ev.name].cooldown_until_ms >= now + errorCooldownMs
        /\ state[ev.name].cooldown_until_ms
              = Max(ev.pre[ev.name].cooldown_until_ms, now + errorCooldownMs)
        /\ state[ev.name].disabled_until_ms = ev.pre[ev.name].disabled_until_ms
        /\ ~Aborted
        /\ ev.thrown # {} => Exhausted

\* the first candidate timed out and the second one is called
C17_Witness ==
    /\ TimedOut
    /\ ev.invoked # {}
    /\ state[ev.name].cooldown_until_ms = now + errorCooldownMs
    /\ state[ev.name].disabled_until_ms = 0

----------------------------------------------------------------------------
\* C18: estimateTokens is 0 for the empty text and at least 1 for every
\* other text, namely the text's length divided by 4 and rounded up (so it
\* is fixed by the text), and no text has a smaller estimate than a shorter
\* text it extends.
C18_EstimateTokens ==
    /\ est.text = <<>> => est.tokens = 0
    /\ est.text # <<>> =>
          /\ est.tokens >= 1
          /\ 4 * (est.tokens - 1) < Len(est.text)
          /\ Len(est.text) <= 4 * est.tokens
    /\ \A k \in 0..Len(est.text) :
          estimateTokens(SubSeq(est.text, 1, k)) <= est.tokens

\* a text of five characters: two tokens, one more than its first four
C18_Witness ==
    /\ Len(est.text) = 5
    /\ est.tokens = 2
    /\ estimateTokens(SubSeq(est.text, 1, 4)) = 1
    /\ estimateTokens(SubSeq(est.text, 1, 0)) = 0

----------------------------------------------------------------------------
\* C19: under fixed_order the ranked list of an invocation is the registered
\* list as it stands, whatever the token estimate and the costs, and the
\* providers an invocation calls follow the registration order.
C19_FixedOrderIsRegistrationOrder ==
    strategy = "fixed_order" =>
        /\ ev.op = "begin" => EvInv.candidates = providers
        /\ \A c \in {inv[r] : r \in Invocations} \cup ev.fin :
              /\ c.pc # "idle" => c.candidates = providers
              /\ \A j, k \in 1..Len(c.calls) :
                    j < k => Pos(providers, c.calls[j]) < Pos(providers, c.calls[k])

\* the first registered provider is called although a cheaper one is
\* registered behind it
C19_Witness ==
    /\ strategy = "fixed_order"
    /\ ev.op = "begin"
    /\ ev.invoked = {providers[1].name}
    /\ \E k \in 2..Len(providers) :
          estimateCostUsd(providers[k], ev.estTokens)
             < estimateCostUsd(providers[1], ev.estTokens)

----------------------------------------------------------------------------
\* C20: once the caller of a request has cancelled it, the steps the router
\* takes for that request between two candidate attempts begin no new
\* provider call (the call that was in flight may still settle).
C20_NoAttemptAfterCancellation ==
    (svc.abandoned /\ ev.op = "throw") => ev.invoked = {}

----------------------------------------------------------------------------
\* C21: a failed call moves the deadlines of the provider that failed by the
\* classified status: 401 or 403 sets disabled_until_ms to max(old, now +
\* authDisableMs), 402 to max(old, now + paymentDisableMs), 429 sets
\* cooldown_until_ms to max(old, now + rateLimitCooldownMs), any other
\* retryable failure to max(old, now + errorCooldownMs); the status decides
\* before the retryable flag is looked at, and the deadline a branch does
\* not set stays as it was.
C21_HealthUpdateByStatus ==
    ev.op = "throw" =>
        LET old == ev.pre[ev.name]
            new == state[ev.name]
            st == EvMapped.status
        IN IF st = {401} \/ st = {403}
           THEN /\ new.disabled_until_ms = Max(old.disabled_until_ms, now + authDisableMs)
                /\ new.cooldown_until_ms = old.cooldown_until_ms
           ELSE IF st = {402}
           THEN /\ new.disabled_until_ms = Max(old.disabled_until_ms, now + paymentDisableMs)
                /\ new.cooldown_until_ms = old.cooldown_until_ms
           ELSE IF st = {429}
           THEN /\ new.cooldown_until_ms = Max(old.cooldown_until_ms, now + rateLimitCooldownMs)
                /\ new.disabled_until_ms = old.disabled_until_ms
           ELSE IF EvMapped.retryable
           THEN /\ new.cooldown_until_ms = Max(old.cooldown_until_ms, now + errorCooldownMs)
                /\ new.disabled_until_ms = old.disabled_until_ms
           ELSE /\ new.cooldown_until_ms = old.cooldown_until_ms
                /\ new.disabled_until_ms = old.disabled_until_ms

\* a 429 that is flagged not retryable still gets the rate-limit cooldown
\* and the loop goes on
C21_Witness ==
    /\ ev.op = "throw"
    /\ EvMapped.status = {429}
    /\ ~EvMapped.retryable
    /\ state[ev.name].cooldown_until_ms = now + rateLimitCooldownMs
    /\ ~Aborted

----------------------------------------------------------------------------
\* C22: a call that succeeds sets its provider's cooldown_until_ms and
\* consecutive_failures to 0 and leaves the provider's disabled_until_ms,
\* last_error and quota window as they were.
C22_SuccessClearsCooldownOnly ==
    ev.op = "return" =>
        /\ state[ev.name].cooldown_until_ms = 0
        /\ state[ev.name].consecutive_failures = 0
        /\ state[ev.name].disabled_until_ms = ev.pre[ev.name].disabled_until_ms
        /\ state[ev.name].last_error = ev.pre[ev.name].last_error
        /\ localQuota[ev.name] = ev.preQuota[ev.name]

\* the provider was cooling down after a failure of a concurrent call when
\* this call succeeded
C22_Witness ==
    /\ ev.op = "return"
    /\ ev.pre[ev.name].cooldown_until_ms > now
    /\ ev.pre[ev.name].consecutive_failures > 0
    /\ ev.pre[ev.name].last_error # {}
    /\ localQuota[ev.name] # <<>>
    /\ state[ev.name].cooldown_until_ms = 0

----------------------------------------------------------------------------
\* C23: every failed provider call, whatever its classification and also
\* when it aborts the loop, leaves the classified failure in the provider's
\* last_error and the provider's consecutive_failures one higher than before.
C23_FailureRecordedAndCounted ==
    ev.op = "throw" =>
        /\ state[ev.name].last_error =
              {[status |-> EvMapped.status, message |-> EvMapped.message, at |-> now]}
        /\ state[ev.name].consecutive_failures
              = ev.pre[ev.name].consecutive_failures + 1

----------------------------------------------------------------------------
\* C24: a candidate whose quota consumption is refused is not called, gets
\* cooldown_until_ms = max(old, now + rateLimitCooldownMs), keeps its
\* consecutive_failures, last_error and disabled_until_ms, and the loop goes
\* on behind it: the step calls a candidate ranked after it or runs out of
\* candidates.
C24_QuotaRefusalIsASkip ==
    \A p \in ev.rejected :
        /\ p \notin ev.invoked
        /\ state[p].cooldown_until_ms
              = Max(ev.pre[p].cooldown_until_ms, now + rateLimitCooldownMs)
        /\ state[p].consecutive_failures = ev.pre[p].consecutive_failures
        /\ state[p].last_error = ev.pre[p].last_error
        /\ state[p].disabled_until_ms = ev.pre[p].disabled_until_ms
        /\ \A q \in ev.invoked :
              Pos(EvInv.candidates, p) < Pos(EvInv.candidates, q)
        /\ ev.invoked = {} => Exhausted

\* a provider with an earlier failure on record is refused and the next
\* candidate is called
C24_Witness ==
    \E p \in ev.rejected :
        /\ ev.pre[p].last_error # {}
        /\ ev.invoked # {}
        /\ state[p].cooldown_until_ms = now + rateLimitCooldownMs

----------------------------------------------------------------------------
\* C25: a refused quota consumption leaves the provider's stored list of
\* timestamps equal to what it was before the check; an accepted one leaves
\* the timestamps of the old list that are not older than now -
\* localQuotaWindowMs, in their order, followed by exactly one new
\* timestamp, now.
C25_RefusalLeavesWindow ==
    /\ \A p \in ev.rejected : localQuota[p] = ev.preQuota[p]
    /\ \A p \in ev.invoked :
          LET kept == SelectSeq(ev.preQuota[p],
                                LAMBDA x : x >= now - localQuotaWindowMs)
          IN /\ Len(localQuota[p]) = Len(kept) + 1
             /\ SubSeq(localQuota[p], 1, Len(kept)) = kept
             /\ localQuota[p][Len(localQuota[p])] = now

\* one candidate is refused with a full window, and the next is accepted
C25_Witness ==
    /\ \E p \in ev.rejected :
          /\ Len(ev.preQuota[p]) = localQuotaMax
          /\ localQuota[p] = ev.preQuota[p]
    /\ \E q \in ev.invoked : localQuota[q] = Append(ev.preQuota[q], now)

----------------------------------------------------------------------------
\* C26: in every reachable state the stored quota window of each provider
\* holds at most localQuotaMax timestamps, in non-decreasing order, none of
\* them later than the current time.
C26_WindowBoundedOrdered ==
    \A p \in Names(providers) :
        /\ Len(localQuota[p]) <= localQuotaMax
        /\ \A j, k \in 1..Len(localQuota[p]) :
              j < k => localQuota[p][j] <= localQuota[p][k]
        /\ \A k \in 1..Len(localQuota[p]) : localQuota[p][k] <= now

\* a full window with admissions of two different times, the older one by
\* now outside the window
C26_Witness ==
    \E p \in Names(providers) :
        /\ Len(localQuota[p]) = localQuotaMax
        /\ localQuota[p][1] < localQuota[p][localQuotaMax]
        /\ localQuota[p][1] < now - localQuotaWindowMs

----------------------------------------------------------------------------
\* C27: a raw error that is an AIProviderError is its own classification:
\* provider, status, retryable flag and message are what the adapter set,
\* whatever the patterns would make of the message.
C27_StructuredPassThrough ==
    (ev.op = "throw" /\ EvRaw.type = "AIProviderError") =>
        /\ ev.mapped = ev.raw
        /\ EvMapped.provider = EvRaw.provider
        /\ EvMapped.status = EvRaw.status
        /\ EvMapped.retryable = EvRaw.retryable
        /\ EvMapped.message = EvRaw.message
        /\ state[ev.name].last_error =
              {[status |-> EvRaw.status, message |-> EvRaw.message, at |-> now]}

\* a 400 the adapter flagged as final: by its message alone it would have no
\* status and be retryable
C27_Witness ==
    /\ ev.op = "throw"
    /\ EvRaw.type = "AIProviderError"
    /\ EvRaw.status = {400}
    /\ ~EvRaw.retryable
    /\ ~Test(RateLimitPattern \cup AuthPattern \cup PaymentPattern, EvRaw.message)
    /\ ev.mapped = ev.raw
    /\ ev.thrown = ev.raw

----------------------------------------------------------------------------
\* C28: ineligibility ends by the passage of time alone.  An invocation never
\* skips a provider whose cooldown and disable deadlines the clock has
\* reached, a step of the clock changes no health state, and every provider
\* that is cooling or disabled is eventually eligible again.
Ineligible(p) ==
    /\ p \in Names(providers)
    /\ (isDisabled(state, p, now) \/ isInCooldown(state, p, now))

Eligible(p) ==
    /\ p \in Names(providers)
    /\ now >= Max(state[p].cooldown_until_ms, state[p].disabled_until_ms)

C28_DeadlineReached ==
    \A p \in ev.skipped :
        now < Max(ev.pre[p].cooldown_until_ms, ev.pre[p].disabled_until_ms)

C28_RevertsWithTime ==
    /\ []C28_DeadlineReached
    /\ [][now' # now => state' = state]_vars
    /\ \A p \in ProviderName : Ineligible(p) ~> Eligible(p)

\* an invocation calls a provider that still carries the failure which made
\* it ineligible: nothing but the clock has touched it since
C28_Witness ==
    \E p \in Names(providers) :
        /\ ev.op = "begin"
        /\ p \in ev.invoked
        /\ ev.pre[p].last_error # {}
        /\ ev.pre[p].consecutive_failures > 0
        /\ ev.pre[p].disabled_until_ms > 0
        /\ now >= Max(ev.pre[p].cooldown_until_ms, ev.pre[p].disabled_until_ms)
        /\ \A e \in ev.pre[p].last_error : e.at < now

----------------------------------------------------------------------------
\* C29: ranking mutates no shared state.  The registered list (order and
\* descriptors) is the same after every step, and when an invocation begins,
\* under either strategy, the health state and quota window of a provider
\* change only by what the loop does to it afterwards: nothing for a
\* provider neither refused nor called, the refusal's cooldown for a refused
\* one, the consumed timestamp for the one called.
C29_BeginFrame ==
    ev.op = "begin" =>
        \A p \in Names(providers) :
            /\ p \notin ev.rejected => state[p] = ev.pre[p]
            /\ p \in ev.rejected =>
                  state[p] = [ev.pre[p] EXCEPT !.cooldown_until_ms =
                                 Max(@, now + rateLimitCooldownMs)]
            /\ p \notin ev.invoked => localQuota[p] = ev.preQuota[p]
            /\ p \in ev.invoked =>
                  localQuota[p] = Append(Fresh(ev.preQuota[p], now), now)

C29_RankingMutatesNothing ==
    /\ []C29_BeginFrame
    /\ [][providers' = providers]_vars

\* the cost strategy hands the loop an order other than the registered one
C29_Witness ==
    /\ ev.op = "begin"
    /\ strategy = "cost_then_failover"
    /\ ev.invoked # {}
    /\ inv[ev.r].candidates # providers
    /\ inv[ev.r].candidates = SortByCost(providers, ev.estTokens)
    /\ \E d \in Deployments : d.strategy = strategy /\ d.providers = providers

----------------------------------------------------------------------------
\* C30: health is tracked per provider.  In the step in which a call to
\* provider A settles (a success or a failure of any class) and in the step in
\* which A is refused for quota, every other provider B keeps its
\* cooldown_until_ms, disabled_until_ms, consecutive_failures, last_error
\* and quota window, except for what the same step does to B itself: the
\* cooldown of B's own quota refusal, the timestamp of B's own call.
OwnRefusal(p) ==
    IF p \in ev.rejected
    THEN [ev.pre[p] EXCEPT !.cooldown_until_ms = Max(@, now + rateLimitCooldownMs)]
    ELSE ev.pre[p]

OwnCall(p) ==
    IF p \in ev.invoked
    THEN Append(Fresh(ev.preQuota[p], now), now)
    ELSE ev.preQuota[p]

C30_PerProviderHealth ==
    ev.op \in {"begin", "return", "throw"} =>
        \A b \in Names(providers) :
            /\ ev.op = "return" => ev.rejected = {} /\ ev.invoked = {}
            /\ b # ev.name => state[b] = OwnRefusal(b)
            /\ localQuota[b] = OwnCall(b)
            /\ (b \in ev.rejected /\ b \notin ev.invoked) =>
                  localQuota[b] = ev.preQuota[b]

\* A fails and is penalised while B, passed over in the same step, keeps the
\* failure record it had; or A succeeds and B's record stays
C30_Witness ==
    \E a, b \in Names(providers) :
        /\ a # b
        /\ ev.op = "throw"
        /\ ev.name = a
        /\ state[a] # ev.pre[a]
        /\ state[a].consecutive_failures = ev.pre[a].consecutive_failures + 1
        /\ b \in ev.skipped
        /\ ev.pre[b].consecutive_failures > 0
        /\ ev.pre[b].last_error # {}
        /\ state[b] = ev.pre[b]
        /\ localQuota[b] = ev.preQuota[b]

----------------------------------------------------------------------------
\* C31: in every step, whatever the interleaving of the invocations in
\* flight, no provider's disabled_until_ms decreases, and no provider is
\* called before the deadline it is disabled until: a success, a failure or
\* a quota refusal that comes after a 401/403/402 leaves the deadline where
\* it was or later.
C31_NotCalledWhileDisabled ==
    \A p \in ev.invoked : now >= state[p].disabled_until_ms

C31_DisabledUntilNeverDecreases ==
    /\ []C31_NotCalledWhileDisabled
    /\ [][\A p \in Names(providers) :
             state'[p].disabled_until_ms >= state[p].disabled_until_ms]_vars

\* a call that was in flight when the provider was disabled succeeds before
\* the deadline
C31_Witness ==
    /\ ev.op = "return"
    /\ ev.pre[ev.name].disabled_until_ms > now
    /\ ev.pre[ev.name].last_error # {}
    /\ \A e \in ev.pre[ev.name].last_error : e.status \in {{401}, {403}, {402}}
    /\ state[ev.name].disabled_until_ms = ev.pre[ev.name].disabled_until_ms
    /\ state[ev.name].consecutive_failures = 0

----------------------------------------------------------------------------
\* C32: (as stated) once a rate-limit failure has put a provider in cooldown
\* until d, no invocation, concurrent ones included, calls the provider before
\* d.  The deadline of the last 429 is its time plus rateLimitCooldownMs.
C32_Original ==
    \A p \in ev.invoked :
        \A e \in ev.pre[p].last_error :
            e.status = {429} => now >= e.at + rateLimitCooldownMs

\* C32: (amended) a cooldown is honoured as long as it stands: no invocation
\* calls a provider whose cooldown_until_ms lies in the future, and a
\* cooldown_until_ms is lowered only by the success of a call to that very
\* provider, which sets it to 0.
C32_NotCalledWhileCooling ==
    \A p \in ev.invoked :
        /\ now >= ev.pre[p].cooldown_until_ms
        /\ now >= state[p].cooldown_until_ms

C32_CooldownStandsUntilSuccess ==
    /\ []C32_NotCalledWhileCooling
    /\ [][\A p \in Names(providers) :
             state'[p].cooldown_until_ms < state[p].cooldown_until_ms =>
                 /\ ev'.op = "return"
                 /\ ev'.name = p
                 /\ state'[p].cooldown_until_ms = 0]_vars

\* a call that was in flight when the 429 arrived has succeeded, and the
\* provider is called again before the deadline the 429 had set
C32_Witness ==
    \E p \in ev.invoked :
        /\ ev.pre[p].cooldown_until_ms = 0
        /\ ev.pre[p].consecutive_failures = 0
        /\ \E e \in ev.pre[p].last_error :
              e.status = {429} /\ now < e.at + rateLimitCooldownMs

----------------------------------------------------------------------------
\* C33: (as stated) after a failure that aborts the loop, the next invocation
\* with the same ranking calls the failing provider first.
C33_Original ==
    [][(Aborted /\ ev'.op = "begin" /\ EvInv'.candidates = EvFin.candidates)
          => ev'.invoked = {ev.name}]_vars

\* C33: (amended) a failure that aborts the loop changes nothing of the
\* failing provider but last_error: cooldown_until_ms, disabled_until_ms,
\* consecutive_failures and the quota window are as before the failure was
\* handled.  An invocation that begins right after it and reaches the
\* provider calls it exactly when the provider was neither cooling nor
\* disabled before the abort and its window has room.
C33_AbortFrame ==
    Aborted =>
        LET p == ev.name
        IN /\ state[p] = [ev.pre[p] EXCEPT !.last_error =
                             {[status |-> EvMapped.status,
                               message |-> EvMapped.message, at |-> now]}]
           /\ localQuota[p] = ev.preQuota[p]

C33_AbortLeavesEligibility ==
    /\ []C33_AbortFrame
    /\ [][(Aborted /\ ev'.op = "begin" /\ ev.name \in Scanned') =>
             (ev.name \in ev'.invoked <=>
                 /\ ~isDisabled(ev.pre, ev.name, now)
                 /\ ~isInCooldown(ev.pre, ev.name, now)
                 /\ Len(Fresh(ev.preQuota[ev.name], now)) < localQuotaMax)]_vars

\* the provider whose failure has just aborted an invocation is healthy
\* still, and the next invocation refuses it for quota
C33_Witness ==
    \E p \in ev.rejected :
        /\ ev.op = "begin"
        /\ ev.pre[p].cooldown_until_ms <= now
        /\ ev.pre[p].disabled_until_ms <= now
        /\ \E e \in ev.pre[p].last_error :
              /\ e.at = now
              /\ e.status \in {{}, {400}}
              /\ e.message \in {<<"API key is missing">>, <<"bad request">>}

----------------------------------------------------------------------------
\* C34: an invocation takes exactly one quota slot for each provider it
\* calls, at the moment of the call, and the slot stays taken whether the
\* call then succeeds or fails; a provider passed over as disabled or
\* cooling, refused for quota or never reached gives up no slot.  Slots are
\* counted among the timestamps still inside the window.
Slots(arr) == Len(Fresh(arr, now))

C34_OneSlotPerCall ==
    ev.op \in StepOps =>
        /\ \A p \in Names(providers) :
              Slots(localQuota[p]) =
                  Slots(ev.preQuota[p]) + (IF p \in ev.invoked THEN 1 ELSE 0)
        /\ \A p \in ev.invoked :
              localQuota[p][Len(localQuota[p])] = now
        /\ \A p \in Names(providers) \ ev.invoked :
              localQuota[p] = ev.preQuota[p]
        /\ ev.name # "" => ev.name \notin ev.invoked
        /\ ev.op = "return" => ev.invoked = {}
        /\ Cardinality(ev.invoked) <= 1

\* the call to one provider fails, its slot stays taken, and the next
\* candidate is called and pays one slot of its own
C34_Witness ==
    /\ ev.op = "throw"
    /\ ev.invoked # {}
    /\ Slots(localQuota[ev.name]) = Slots(ev.preQuota[ev.name])
    /\ Slots(localQuota[ev.name]) > 0
    /\ \A p \in ev.invoked : Slots(localQuota[p]) = Slots(ev.preQuota[p]) + 1

----------------------------------------------------------------------------
\* C35: every invocation terminates when every provider call settles.  An
\* invocation in flight moves only forward in its ranked list, so it makes
\* at most one pass; it ends, and when it ends its caller has either a
\* provider's result or an error, never neither.
C35_EndsWithResultOrError ==
    /\ ev.fin # {} =>
          /\ (ev.result # {}) # (ev.thrown # {})
          /\ \A x \in ev.result : x \in Results(ev.name)
          /\ \A e \in ev.thrown : InstanceOfError(e)
          /\ inv[ev.r].pc = "idle"
    /\ (ev.op \in StepOps /\ ev.fin = {}) =>
          /\ inv[ev.r].pc = "await"
          /\ ev.result = {} /\ ev.thrown = {}
    /\ \A r \in Invocations :
          inv[r].pc = "await" =>
              /\ inv[r].i \in 1..Len(inv[r].candidates)
              /\ Len(inv[r].calls) <= inv[r].i
              /\ Len(inv[r].candidates) = Len(providers)

C35_Terminates ==
    /\ []C35_EndsWithResultOrError
    /\ [][\A r \in Invocations :
             (inv[r].pc = "await" /\ inv'[r] # inv[r]) =>
                 \/ inv'[r].pc = "idle"
                 \/ /\ inv'[r].i > inv[r].i
                    /\ inv'[r].candidates = inv[r].candidates]_vars
    /\ \A r \in Invocations : (inv[r].pc = "await") ~> (inv[r].pc = "idle")

\* the pass reaches the end of the list: every candidate was called and
\* failed, and the caller gets an error
C35_Witness ==
    /\ Exhausted
    /\ ev.op = "throw"
    /\ Len(EvFin.candidates) = 3
    /\ Len(EvFin.calls) = 3
    /\ ev.result = {}
    /\ ev.thrown # {}

----------------------------------------------------------------------------
\* the last step was the start of an analyze request, or ended one
Answered == ctl.pc = "done" /\ ev.op \in {"hit", "begin", "return", "throw"}
CtlRequest == CHOOSE r \in ctl.request : TRUE
CtlResponse == CHOOSE r \in ctl.response : TRUE

\* C36: (as stated) on a miss the response of processAnalysis is stored
\* under the request's key for the TTL.
C36_Original ==
    (Answered /\ ~ctl.hit /\ ctl.response # {}) =>
        \E e \in redis.store :
            e.key = ctl.cacheKey /\ e.expiresAt = now + cacheTtlSeconds

\* C36: (amended) a request answered from the cache calls no provider and
\* its body carries metadata.cached = true with the stored summary; a
\* request not answered from the cache runs processAnalysis once and carries
\* cached = false, and when set returns true its response, a fallback
\* included, is held under the request's key until now + TTL.  A request
\* whose key the server holds an unexpired entry for is answered from the
\* cache whenever the client is connected and its get does not fail.
C36_AnsweredFromCacheOrStored ==
    /\ (Answered /\ ctl.hit) =>
          /\ ev.op = "hit"
          /\ ev.invoked = {}
          /\ ctl.setResult = {} /\ ctl.passed = {}
          /\ ctl.response # {}
          /\ CtlResponse.data.metadata.cached = TRUE
          /\ CtlResponse.data.metadata.request_id = CtlRequest.requestId
          /\ \E e \in Live(redis, ctl.cacheKey, now) :
                CtlResponse.data.summary = Parse(Parse(e.value)).summary
    /\ (Answered /\ ~ctl.hit) =>
          /\ ev.op \in StepOps
          /\ svc.pc = "done"
          /\ svc.request = ctl.request
          /\ ctl.passed = {}
          /\ ctl.response # {}
          /\ CtlResponse.data.metadata.cached = FALSE
          /\ CtlResponse.data.metadata.cache_key = ctl.cacheKey
          /\ \A x \in svc.response : CtlResponse.data.summary = x.summary
          /\ ctl.setResult = {TRUE} =>
                \A x \in svc.response :
                    [key |-> ctl.cacheKey, value |-> Stringify(Stringify(x)),
                     expiresAt |-> now + cacheTtlSeconds] \in redis.store

C36_CacheShortCircuits ==
    /\ []C36_AnsweredFromCacheOrStored
    /\ [][ev'.op = "hit" =>
             /\ made' = made /\ state' = state /\ localQuota' = localQuota
             /\ inv' = inv /\ svc' = svc /\ redis' = redis
             /\ redis.isConnected
             /\ Live(redis, ctl'.cacheKey, now) # {}]_vars
    /\ [][(ev'.op = "begin" /\ redis.isConnected /\ ~ctl'.getFailed) =>
             Live(redis, ctl'.cacheKey, now) = {}]_vars

\* a fallback response stored by one request answers the next request with
\* the same key, which calls no provider
C36_Witness ==
    /\ Answered
    /\ ctl.hit
    /\ made = 1
    /\ CtlResponse.data.metadata.cached = TRUE
    /\ "fallback" \in DOMAIN CtlResponse.data.metadata
    /\ CtlResponse.data.metadata.model_version = "fallback-v1"

----------------------------------------------------------------------------
\* C37: the cache never fails a request.  Nothing a cache operation does
\* reaches next(error); a request that arrives while the client is not
\* connected, or whose get fails, goes on to processAnalysis; a request that
\* ends while the client is not connected gets false from set, the server's
\* entries stay as they were, and the response is sent all the same.
C37_RequestAnswered ==
    /\ ctl.passed = {}
    /\ Answered => ctl.response # {} /\ CtlResponse.success
    /\ (Answered /\ ctl.getFailed) => ~ctl.hit /\ svc.request = ctl.request
    /\ (Answered /\ ~ctl.hit) => ctl.setResult # {}

C37_CacheNeverFailsRequest ==
    /\ []C37_RequestAnswered
    /\ [][(ev'.op \in {"hit", "begin"} /\ (~redis.isConnected \/ ctl'.getFailed)) =>
             /\ ev'.op = "begin"
             /\ ~ctl'.hit
             /\ svc'.request = ctl'.request
             /\ svc'.pc \in {"await", "done"}]_vars
    /\ [][(ev'.op \in StepOps /\ ctl'.pc = "done" /\ ~redis.isConnected) =>
             /\ ctl'.setResult = {FALSE}
             /\ redis' = redis
             /\ ctl'.response # {}]_vars
    /\ [][(ev'.op \in StepOps /\ ctl'.pc = "done" /\ ctl'.setResult = {FALSE}) =>
             redis' = redis /\ ctl'.response # {}]_vars

\* the server holds an unexpired entry for the key, get fails, the provider
\* is called, set fails too, and the request is answered
C37_Witness ==
    /\ Answered
    /\ ctl.getFailed
    /\ Live(redis, ctl.cacheKey, now) # {}
    /\ ev.op = "return"
    /\ ctl.setResult = {FALSE}
    /\ CtlResponse.data.metadata.cached = FALSE
    /\ "fallback" \notin DOMAIN CtlResponse.data.metadata

====
